---- MODULE Spec2Model ----
(***************************************************************************)
(* Model of the ChatBot front end:                                         *)
(*   - the test-runner page (src/unnamed/part_001): the start-button click *)
(*     handler, the polling timer and checkJobStatus;                      *)
(*   - the API facade (src/unnamed/part_000): chatApi and indexApi.        *)
(* The page and the facade are independent programs; Spec runs the page,   *)
(* ApiSpec runs the facade.                                                *)
(***************************************************************************)
EXTENDS Integers, Sequences, FiniteSets, Bags, TLC

\* ------------------------------------------------------------------ bounds
\* Start requests the user issues in one behaviour.
MaxJobs == 3
\* Status requests in flight at once.
MaxInFlight == 2

\* ------------------------------------------------------- JavaScript values
\* `let jobId = null`, `let pollInterval = null`
Null == 0
\* a property absent from a JSON body (`jobData.job_id`, `jobData.progress`)
Undefined == -1

\* JavaScript truthiness of a job id (`if (!jobId) return`)
Truthy(v) == v # Null /\ v # Undefined

JobIds == 1..MaxJobs
TimerIds == 1..MaxJobs
Terminal == {"completed", "failed"}
NonTerminal == {"running"}
ProgressValues == {50}

VARIABLES
  \* ---- test-runner page
  files,          \* fileInput.files holds a file
  jobId,          \* let jobId
  pollInterval,   \* let pollInterval
  timers,         \* the browser's active interval timers
  nextTimer,      \* the id the next setInterval returns
  startDisabled,  \* startButton.disabled
  progressShown,  \* progressContainer.style.display = 'block'
  progressBar,    \* progressBar.style.width, in percent
  jobStatus,      \* jobStatus.textContent: [kind, job]
  resultDiv,      \* resultDiv.innerHTML: [kind, job]
  startReqs,      \* POST /test/batch/start requests in flight
  statusReqs,     \* GET /test/jobs/{id} requests in flight: a bag of ids
  started,        \* start requests issued so far
  backend,        \* the backend's jobs: id -> "none" | "running" | terminal
  nJobs,          \* jobs the backend created; ids 1..nJobs were returned
  terminalSeen,   \* ids for which checkJobStatus processed a terminal status
  \* ---- API facade
  apiPhase,       \* "idle" | "pending" | "resolved" | "rejected"
  apiCall,        \* the invocation: [fn, args]
  httpLog,        \* HTTP requests the invocation issued
  httpError,      \* the error the HTTP call failed with
  httpData,       \* the body the HTTP call answered with
  apiOutcome,     \* what the promise settled with
  prevSid,        \* session_id of the previous sendMessage payload
  returnedSid,    \* session_id of the previous sendMessage result
  chained         \* the invocation passed back returnedSid

pageVars == <<files, jobId, pollInterval, timers, nextTimer, startDisabled,
              progressShown, progressBar, jobStatus, resultDiv, startReqs,
              statusReqs, started, backend, nJobs, terminalSeen>>
apiVars == <<apiPhase, apiCall, httpLog, httpError, httpData, apiOutcome,
             prevSid, returnedSid, chained>>
vars == <<pageVars, apiVars>>

Text(k, j) == [kind |-> k, job |-> j]
\* An object with no properties.
NoFields == [x \in {} |-> ""]

\* ============================================================ the page
PageInit ==
  /\ files = FALSE
  /\ jobId = Null
  /\ pollInterval = Null
  /\ timers = {}
  /\ nextTimer = 1
  /\ startDisabled = FALSE
  /\ progressShown = FALSE
  /\ progressBar = 0
  /\ jobStatus = Text("Starting job...", Null)
  /\ resultDiv = Text("Results will appear here...", Null)
  /\ startReqs = 0
  /\ statusReqs = EmptyBag
  /\ started = 0
  /\ backend = [j \in JobIds |-> "none"]
  /\ nJobs = 0
  /\ terminalSeen = {}

ApiInit ==
  /\ apiPhase = "idle"
  /\ apiCall = [fn |-> "none"]
  /\ httpLog = <<>>
  /\ httpError = "none"
  /\ httpData = NoFields
  /\ apiOutcome = [kind |-> "none"]
  /\ prevSid = "none"
  /\ returnedSid = "none"
  /\ chained = FALSE

\* The user picks a file, or empties the file input.
SelectFile ==
  /\ files' = ~files
  /\ UNCHANGED <<jobId, pollInterval, timers, nextTimer, startDisabled,
                 progressShown, progressBar, jobStatus, resultDiv, startReqs,
                 statusReqs, started, backend, nJobs, terminalSeen>>
  /\ UNCHANGED apiVars

\* Click with no file selected: alert and return.
ClickNoFile ==
  /\ ~startDisabled
  /\ ~files
  /\ UNCHANGED <<files, jobId, pollInterval, timers, nextTimer, startDisabled,
                 progressShown, progressBar, jobStatus, resultDiv, startReqs,
                 statusReqs, started, backend, nJobs, terminalSeen>>
  /\ UNCHANGED apiVars

\* Click with a file: the handler up to `await fetch(/test/batch/start)`.
\* A disabled button dispatches no click event.
ClickStart ==
  /\ ~startDisabled
  /\ files
  /\ started < MaxJobs
  /\ startDisabled' = TRUE
  /\ progressShown' = TRUE
  /\ progressBar' = 0
  /\ jobStatus' = Text("Starting job...", Null)
  /\ resultDiv' = Text("Job starting...", Null)
  /\ startReqs' = startReqs + 1
  /\ started' = started + 1
  /\ UNCHANGED <<files, jobId, pollInterval, timers, nextTimer, statusReqs,
                 backend, nJobs, terminalSeen>>
  /\ UNCHANGED apiVars

\* The start request succeeded: jobId = jobData.job_id, then setInterval.
\* id is the job id of the body, Undefined when the body carries none.
StartOk(id) ==
  /\ startReqs > 0
  /\ startReqs' = startReqs - 1
  /\ \/ /\ id = nJobs + 1
        /\ id \in JobIds
        /\ nJobs' = id
        /\ backend' = [backend EXCEPT ![id] = "running"]
     \/ /\ id = Undefined
        /\ UNCHANGED <<nJobs, backend>>
  /\ jobId' = id
  /\ jobStatus' = Text("Job started with ID", id)
  /\ resultDiv' = Text("Job started with ID", id)
  /\ pollInterval' = nextTimer
  /\ timers' = timers \cup {nextTimer}
  /\ nextTimer' = nextTimer + 1
  /\ UNCHANGED <<files, startDisabled, progressShown, progressBar, statusReqs,
                 started, terminalSeen>>
  /\ UNCHANGED apiVars

\* The start request failed (fetch rejected, response not ok, or a body
\* that is no JSON): the catch block.
StartFail ==
  /\ startReqs > 0
  /\ startReqs' = startReqs - 1
  /\ jobStatus' = Text("Error", Null)
  /\ resultDiv' = Text("Error", Null)
  /\ startDisabled' = FALSE
  /\ UNCHANGED <<files, jobId, pollInterval, timers, nextTimer, progressShown,
                 progressBar, statusReqs, started, backend, nJobs,
                 terminalSeen>>
  /\ UNCHANGED apiVars

\* checkJobStatus without its `if (!jobId) return`.
TickNoGuard(t) ==
  /\ t \in timers
  /\ BagCardinality(statusReqs) < MaxInFlight
  /\ statusReqs' = statusReqs (+) SetToBag({jobId})
  /\ UNCHANGED <<files, jobId, pollInterval, timers, nextTimer, startDisabled,
                 progressShown, progressBar, jobStatus, resultDiv, startReqs,
                 started, backend, nJobs, terminalSeen>>
  /\ UNCHANGED apiVars

\* An interval timer fires checkJobStatus, which runs up to `await fetch`.
Tick(t) ==
  /\ t \in timers
  /\ IF ~Truthy(jobId)
       THEN UNCHANGED statusReqs
       ELSE /\ BagCardinality(statusReqs) < MaxInFlight
            /\ statusReqs' = statusReqs (+) SetToBag({jobId})
  /\ UNCHANGED <<files, jobId, pollInterval, timers, nextTimer, startDisabled,
                 progressShown, progressBar, jobStatus, resultDiv, startReqs,
                 started, backend, nJobs, terminalSeen>>
  /\ UNCHANGED apiVars

\* clearInterval(id): removes the timer with that id, if there is one.
ClearInterval(id) == timers \ {id}

\* The statuses a response for job j can carry: the job's status when the
\* backend answered, which is the present one or an earlier one.
ResponseStatuses(j) ==
  IF j \in JobIds /\ backend[j] # "none"
    THEN NonTerminal \cup ({backend[j]} \cap Terminal)
    ELSE {}

\* A catch block of checkJobStatus that gives up polling on an error.
CheckFailStops(j) ==
  /\ BagIn(j, statusReqs)
  /\ statusReqs' = statusReqs (-) SetToBag({j})
  /\ jobStatus' = Text("Error checking status", j)
  /\ timers' = timers \ {pollInterval}
  /\ startDisabled' = FALSE
  /\ UNCHANGED <<files, jobId, pollInterval, nextTimer, progressShown,
                 progressBar, resultDiv, startReqs, started, backend, nJobs,
                 terminalSeen>>
  /\ UNCHANGED apiVars

\* The status request for job j failed (fetch rejected, response not ok, or
\* a body that is no JSON): the catch block of checkJobStatus.
CheckFail(j) ==
  /\ BagIn(j, statusReqs)
  /\ statusReqs' = statusReqs (-) SetToBag({j})
  /\ jobStatus' = Text("Error checking status", j)
  /\ UNCHANGED <<files, jobId, pollInterval, timers, nextTimer, startDisabled,
                 progressShown, progressBar, resultDiv, startReqs, started,
                 backend, nJobs, terminalSeen>>
  /\ UNCHANGED apiVars

\* The status request for job j answered with status s and progress p.
CheckOk(j, s, p) ==
  /\ BagIn(j, statusReqs)
  /\ s \in ResponseStatuses(j)
  /\ statusReqs' = statusReqs (-) SetToBag({j})
  /\ progressBar' = IF p # Undefined THEN p ELSE progressBar
  /\ jobStatus' = Text(s, j)
  /\ IF s = "completed"
       THEN /\ timers' = ClearInterval(pollInterval)
            /\ startDisabled' = FALSE
            /\ resultDiv' = Text("Test Results", j)
            /\ terminalSeen' = terminalSeen \cup {j}
       ELSE IF s = "failed"
         THEN /\ timers' = ClearInterval(pollInterval)
              /\ startDisabled' = FALSE
              /\ resultDiv' = Text("Job failed", j)
              /\ terminalSeen' = terminalSeen \cup {j}
         ELSE UNCHANGED <<timers, startDisabled, resultDiv, terminalSeen>>
  /\ UNCHANGED <<files, jobId, pollInterval, nextTimer, progressShown,
                 startReqs, started, backend, nJobs>>
  /\ UNCHANGED apiVars

\* The backend finishes job j.
BackendFinish(j, s) ==
  /\ j \in JobIds
  /\ backend[j] = "running"
  /\ s \in Terminal
  /\ backend' = [backend EXCEPT ![j] = s]
  /\ UNCHANGED <<files, jobId, pollInterval, timers, nextTimer, startDisabled,
                 progressShown, progressBar, jobStatus, resultDiv, startReqs,
                 statusReqs, started, nJobs, terminalSeen>>
  /\ UNCHANGED apiVars

Init == PageInit /\ ApiInit

Next ==
  \/ SelectFile
  \/ ClickNoFile
  \/ ClickStart
  \/ \E id \in JobIds \cup {Undefined} : StartOk(id)
  \/ StartFail
  \/ \E t \in TimerIds : Tick(t)
  \/ \E j \in JobIds \cup {Undefined} : CheckFail(j)
  \/ \E j \in JobIds, s \in Terminal \cup NonTerminal,
        p \in ProgressValues \cup {Undefined} : CheckOk(j, s, p)
  \/ \E j \in JobIds, s \in Terminal : BackendFinish(j, s)

Spec == Init /\ [][Next]_vars

\* ====================================================== the API facade
\* A parameter left out or passed as null.
NullArg == "<null>"
\* JavaScript truthiness of a string-or-null argument.
TruthyStr(v) == v # NullArg /\ v # ""

Messages == {"hello"}
ResponseModes == {"rag", "standard", "compare", "other"}
SessionArgs == {NullArg, "", "s1"}
SystemPrompts == {NullArg, "", "Be brief"}
PromptStyles == {"default", "concise"}
\* `session_${Math.random().toString(36).substring(2, 15)}`
RandomSessions == {"session_a", "session_b"}
\* What the HTTP client rejects with.
Errors == {"Network Error", "Request failed with status code 500"}
\* Response bodies; the backend may echo a session id of its own.
ResponseData ==
  {[response |-> "hi"], [response |-> "hi", session_id |-> "srv"]}

\* Strings that `includes` searches are sequences of characters.
Csv == <<".", "c", "s", "v">>
TestStrings ==
  {<<>>, <<"a">>, Csv, <<"a">> \o Csv, Csv \o <<"x">>, <<".", "c", "s">>,
   <<"c", "s", "v">>}
\* Objects are functions from property names to values.
TestObjects ==
  {[prompt |-> "p", expected_result |-> "e"], [prompt |-> "p"],
   [prompt |-> "p", expected_result |-> ""], [prompt |-> ""],
   [expected_result |-> "e"]}
TestData ==
  {[t |-> "null"], [t |-> "number"]}
    \cup {[t |-> "string", s |-> s] : s \in TestStrings}
    \cup {[t |-> "object", o |-> o] : o \in TestObjects}

\* String.prototype.endsWith, used where includes is meant
EndsWith(s, sub) ==
  Len(s) >= Len(sub) /\ SubSeq(s, Len(s) - Len(sub) + 1, Len(s)) = sub

\* String.prototype.includes
Includes(s, sub) ==
  \E i \in 1..(Len(s) - Len(sub) + 1) : SubSeq(s, i, i + Len(sub) - 1) = sub
\* obj.name, NullArg when the object has no such property
Get(o, name) == IF name \in DOMAIN o THEN o[name] ELSE NullArg

\* One call of the HTTP client: api.post / api.get / api.delete.
Request(m, u, hasBody, b, q) ==
  [method |-> m, url |-> u, hasBody |-> hasBody, body |-> b, params |-> q]

\* sendMessage: const session_id = sessionId || `session_${...}`
SessionId(sessionId, rnd) == IF TruthyStr(sessionId) THEN sessionId ELSE rnd

\* A mode mapping with the 'standard' case lost.
ModeNoStandard(responseMode) ==
  IF responseMode = "compare" THEN "compare" ELSE "rag"

\* sendMessage: the UI response mode mapped to the backend's mode
Mode(responseMode) ==
  IF responseMode = "standard" THEN "no_rag"
  ELSE IF responseMode = "compare" THEN "compare"
  ELSE "rag"

\* sendMessage: the payload and the post
SendMessageRequest(c) ==
  LET payload == [message |-> c.message, session_id |-> c.session_id,
                  mode |-> Mode(c.responseMode), prompt_style |-> c.promptStyle]
  IN Request("POST", <<"/chat">>, TRUE,
             IF TruthyStr(c.systemPrompt)
               THEN payload @@ ("system_prompt" :> c.systemPrompt)
               ELSE payload,
             NoFields)

\* return { session_id, ...response.data }: the backend's session id wins.
SendMessageResultSpreadLast(sid, data) == data @@ ("session_id" :> sid)

\* sendMessage: return { ...response.data, session_id }
SendMessageResult(sid, data) == ("session_id" :> sid) @@ data

\* runTests: the three cases
RunTestsRequest(c) ==
  LET d == c.testData IN
  IF d.t = "object" /\ TruthyStr(Get(d.o, "prompt"))
    THEN Request("POST", <<"/test/single">>, TRUE,
                 [prompt |-> d.o.prompt,
                  expected_result |->
                    IF TruthyStr(Get(d.o, "expected_result"))
                      THEN d.o.expected_result ELSE ""],
                 NoFields)
  ELSE IF d.t = "string"
    THEN IF ~Includes(d.s, Csv)
           THEN Request("POST", <<"/test/single">>, TRUE,
                        [test_file |-> d.s], NoFields)
           ELSE Request("POST", <<"/chat/batch-test">>, TRUE,
                        [test_file |-> d.s],
                        [similarity_threshold |-> "0.7"])
  ELSE Request("POST", <<"/test/single">>, FALSE, NoFields, NoFields)

\* The request each function of chatApi and indexApi issues.
BuildRequest(c) ==
  CASE c.fn = "sendMessage" -> SendMessageRequest(c)
    [] c.fn = "runTests" -> RunTestsRequest(c)
    [] c.fn = "startBatchTest" ->
         Request("POST",
                 <<"/test/batch/start?similarity_threshold=",
                   c.similarityThreshold>>,
                 TRUE, [csv_file |-> c.file], NoFields)
    [] c.fn = "getTestJobStatus" ->
         Request("GET", <<"/test/jobs/", c.jobId>>, FALSE, NoFields, NoFields)
    [] c.fn = "getAllTestJobs" ->
         Request("GET", <<"/test/jobs">>, FALSE, NoFields, NoFields)
    [] c.fn = "clearCache" ->
         Request("DELETE", <<"/chat/cache">>, FALSE, NoFields,
                 IF c.olderThanDays \notin {NullArg, "0"}
                   THEN [older_than_days |-> c.olderThanDays] ELSE NoFields)
    [] c.fn = "getCacheStats" ->
         Request("GET", <<"/chat/cache/stats">>, FALSE, NoFields, NoFields)
    [] c.fn = "indexGoogleDrive" ->
         Request("POST", <<"/index/google-drive">>, TRUE, NoFields,
                 LET flags == [recursive |-> c.recursive,
                               enhanced_slides |-> c.enhancedSlides]
                 IN IF TruthyStr(c.folderId)
                      THEN flags @@ ("folder_id" :> c.folderId) ELSE flags)
    [] c.fn = "listGoogleDriveFiles" ->
         Request("GET", <<"/index/google-drive/files">>, FALSE, NoFields,
                 NoFields)
    [] c.fn = "indexShopify" ->
         Request("POST", <<"/index/">>, TRUE, [store |-> c.shopifyDomain],
                 NoFields)
    [] c.fn = "listShopifyContent" ->
         Request("GET", <<"/index/">>, FALSE, NoFields, NoFields)
    [] c.fn = "deleteDocument" ->
         Request("DELETE", <<"/index/document/", c.documentId>>, FALSE,
                 NoFields, NoFields)
    [] c.fn = "healthCheck" ->
         Request("GET", <<"/health">>, FALSE, NoFields, NoFields)

\* What a function returns from the response body.
Result(c, data) ==
  IF c.fn = "sendMessage" THEN SendMessageResult(c.session_id, data) ELSE data

\* A catch block that throws an error of its own.
CatchWrap(error) == "Request failed"

\* catch (error) { console.error(...); throw error; }
CatchRethrow(error) == error

\* A function is called: it runs up to its `await api.<method>(...)`.
Invoke(c) ==
  /\ apiPhase # "pending"
  /\ apiPhase' = "pending"
  /\ apiCall' = c
  /\ httpLog' = <<BuildRequest(c)>>
  /\ httpError' = "none"
  /\ httpData' = NoFields
  /\ apiOutcome' = [kind |-> "none"]
  /\ chained' = (c.fn = "sendMessage" /\ returnedSid # "none"
                   /\ c.sessionId = returnedSid)
  /\ UNCHANGED <<prevSid, returnedSid>>
  /\ UNCHANGED pageVars

\* The HTTP call succeeded with body data: the function returns.
HttpOk(data) ==
  /\ apiPhase = "pending"
  /\ apiPhase' = "resolved"
  /\ apiOutcome' = [kind |-> "resolved", value |-> Result(apiCall, data)]
  /\ IF apiCall.fn = "sendMessage"
       THEN /\ prevSid' = httpLog[1].body.session_id
            /\ returnedSid' = Result(apiCall, data).session_id
       ELSE UNCHANGED <<prevSid, returnedSid>>
  /\ httpData' = data
  /\ UNCHANGED <<apiCall, httpLog, httpError, chained>>
  /\ UNCHANGED pageVars

\* The HTTP call failed with error e: the catch block.
HttpFail(e) ==
  /\ apiPhase = "pending"
  /\ apiPhase' = "rejected"
  /\ httpError' = e
  /\ apiOutcome' = [kind |-> "rejected", error |-> CatchRethrow(e)]
  /\ UNCHANGED <<apiCall, httpLog, httpData, prevSid, returnedSid, chained>>
  /\ UNCHANGED pageVars

ApiNext ==
  \/ \E m \in Messages, r \in ResponseModes,
        s \in SessionArgs \cup ({returnedSid} \ {"none"}),
        sp \in SystemPrompts, ps \in PromptStyles, rnd \in RandomSessions :
       Invoke([fn |-> "sendMessage", message |-> m, responseMode |-> r,
               sessionId |-> s, systemPrompt |-> sp, promptStyle |-> ps,
               session_id |-> SessionId(s, rnd)])
  \/ \E d \in TestData : Invoke([fn |-> "runTests", testData |-> d])
  \/ \E th \in {"0.7", "0.5"} :
       Invoke([fn |-> "startBatchTest", file |-> "tests.csv",
               similarityThreshold |-> th])
  \/ \E j \in {"job-1", "job-2"} :
       Invoke([fn |-> "getTestJobStatus", jobId |-> j])
  \/ Invoke([fn |-> "getAllTestJobs"])
  \/ \E d \in {NullArg, "0", "7"} :
       Invoke([fn |-> "clearCache", olderThanDays |-> d])
  \/ Invoke([fn |-> "getCacheStats"])
  \/ \E f \in {NullArg, "", "folder"}, rec \in BOOLEAN, enh \in BOOLEAN :
       Invoke([fn |-> "indexGoogleDrive", folderId |-> f, recursive |-> rec,
               enhancedSlides |-> enh])
  \/ Invoke([fn |-> "listGoogleDriveFiles"])
  \/ \E sh \in {NullArg, "shop.example"} :
       Invoke([fn |-> "indexShopify", shopifyDomain |-> sh])
  \/ Invoke([fn |-> "listShopifyContent"])
  \/ \E doc \in {"doc-1", "doc-2"} :
       Invoke([fn |-> "deleteDocument", documentId |-> doc])
  \/ Invoke([fn |-> "healthCheck"])
  \/ \E data \in ResponseData : HttpOk(data)
  \/ \E e \in Errors : HttpFail(e)

ApiSpec == Init /\ [][ApiNext]_vars

\* Timers fire, responses are delivered, the backend finishes its jobs and
\* answers a status request for a finished job with the terminal status.
FairSpec ==
  /\ Spec
  /\ \A t \in TimerIds : SF_vars(Tick(t))
  /\ WF_vars(\E id \in JobIds \cup {Undefined} : StartOk(id))
  /\ \A j \in JobIds : WF_vars(\E s \in Terminal : BackendFinish(j, s))
  /\ \A j \in JobIds :
       SF_vars(\E s \in Terminal, p \in ProgressValues \cup {Undefined} :
                 CheckOk(j, s, p))

\* ------------------------------------------------- steps, seen from outside
\* The response to a status request for job j is processed in this step.
Answered(j) == CopiesIn(j, statusReqs') < CopiesIn(j, statusReqs)
CheckTerminalStep(j) == Answered(j) /\ jobStatus'.kind \in Terminal
CheckNonTerminalStep(j) == Answered(j) /\ jobStatus'.kind \in NonTerminal
CheckFailedStep(j) == Answered(j) /\ jobStatus'.kind = "Error checking status"
\* The response to a start request is processed in this step.
StartAnswered == startReqs' < startReqs
StartFailedStep == StartAnswered /\ jobStatus'.kind # "Job started with ID"

\* ----------------------------------------------------------------- claims
\* C1: once checkJobStatus processes a 'completed' or 'failed' response, the
\* polling timer is torn down and the start button is enabled, and from then
\* on no status request is issued for that job.
C1_TerminalStopsPolling ==
  [][ /\ \A j \in JobIds :
           CheckTerminalStep(j) => pollInterval \notin timers' /\ ~startDisabled'
      /\ \A j \in terminalSeen :
           CopiesIn(j, statusReqs') <= CopiesIn(j, statusReqs) ]_vars

\* C2: once a started job is being polled and the backend answers its status
\* requests with a terminal status, then, unless a later start replaces the
\* job, polling eventually stops (no timer is active) and the start button
\* is eventually enabled.
C2_PollingEventuallyStops ==
  \A j \in JobIds :
    (jobId = j /\ timers # {} /\ backend[j] \in Terminal)
      ~> (jobId # j \/ (timers = {} /\ ~startDisabled))

\* C6: status requests are only for job ids a successful start returned, a
\* timer is created only by a successful start, and a failed start creates
\* no timer, shows the error and enables the start button.
C6_PollOnlyAfterStart ==
  [][ /\ \A j \in BagToSet(statusReqs') : j \in 1..nJobs'
      /\ ~(timers' \subseteq timers) =>
           StartAnswered /\ jobStatus'.kind = "Job started with ID"
      /\ StartFailedStep =>
           /\ timers' = timers
           /\ nextTimer' = nextTimer
           /\ pollInterval' = pollInterval
           /\ statusReqs' = statusReqs
           /\ jobStatus'.kind = "Error"
           /\ resultDiv'.kind = "Error"
           /\ ~startDisabled' ]_vars

\* A start failed before any job existed: no timer, no status request, the
\* error shown and the button enabled.
C6_Witness ==
  /\ started > 0
  /\ nJobs = 0
  /\ startReqs = 0
  /\ jobStatus.kind = "Error"
  /\ resultDiv.kind = "Error"
  /\ timers = {}
  /\ statusReqs = EmptyBag
  /\ ~startDisabled

\* C7: a status check that fails or returns a non-terminal status changes
\* nothing but the status text (and the progress bar, when the response has
\* a progress): the timers and the start button stay as they were and no
\* request is issued in its place; a timer stops only on a terminal status.
C7_NonTerminalKeepsPolling ==
  [][ /\ \A j \in JobIds :
           (CheckFailedStep(j) \/ CheckNonTerminalStep(j)) =>
             /\ timers' = timers
             /\ pollInterval' = pollInterval
             /\ startDisabled' = startDisabled
             /\ jobId' = jobId
             /\ resultDiv' = resultDiv
             /\ progressShown' = progressShown
             /\ files' = files
             /\ startReqs' = startReqs
             /\ statusReqs' = statusReqs (-) SetToBag({j})
             /\ (CheckFailedStep(j) => progressBar' = progressBar)
      /\ (timers' # timers /\ timers' \subseteq timers) =>
           \E j \in JobIds : CheckTerminalStep(j) ]_vars

\* A failed status check has been processed while the job is polled: the
\* timer is still active and the button still disabled.
C7_Witness ==
  /\ jobStatus.kind = "Error checking status"
  /\ jobStatus.job = jobId
  /\ pollInterval \in timers
  /\ startDisabled

\* C8: at most one start or poll loop is in progress and at most one timer
\* is active, and the start button is disabled while one is.
C8_SingleJob ==
  /\ Cardinality(timers) <= 1
  /\ startReqs <= 1
  /\ ~(startReqs > 0 /\ timers # {})
  /\ (startReqs > 0 \/ timers # {}) => startDisabled

\* C9: the response to a status request of an earlier job, processed after a
\* later job was started, leaves the later job's timer, the start button,
\* the status text and the results as they were.
C9_StaleResponseIsolated ==
  [][ \A j \in JobIds :
        (Answered(j) /\ Truthy(jobId) /\ j # jobId) =>
          /\ timers' = timers
          /\ startDisabled' = startDisabled
          /\ jobStatus' = jobStatus
          /\ resultDiv' = resultDiv ]_vars

\* C3: every function of chatApi and indexApi issues exactly one HTTP
\* request per invocation, and when that request fails the function rejects
\* with the very error the HTTP call failed with.
C3_ErrorsRethrownOnce ==
  /\ apiPhase # "idle" => Len(httpLog) = 1
  /\ apiPhase = "rejected" =>
       /\ apiOutcome.kind = "rejected"
       /\ httpError \in Errors
       /\ apiOutcome.error = httpError
  /\ apiPhase = "resolved" => apiOutcome.kind = "resolved"

\* A function of indexApi rejected with the network error.
C3_Witness ==
  /\ apiPhase = "rejected"
  /\ apiCall.fn = "deleteDocument"
  /\ httpError = "Network Error"
  /\ apiOutcome.error = "Network Error"
  /\ Len(httpLog) = 1

\* C4: sendMessage posts one request to /chat whose mode is 'no_rag' for
\* 'standard', 'compare' for 'compare' and 'rag' otherwise; the payload has
\* message, session_id and prompt_style, and has system_prompt exactly when
\* a non-empty systemPrompt was given.
C4_SendMessagePayload ==
  apiCall.fn = "sendMessage" =>
    /\ Len(httpLog) = 1
    /\ httpLog[1].method = "POST"
    /\ httpLog[1].url = <<"/chat">>
    /\ httpLog[1].hasBody
    /\ LET b == httpLog[1].body IN
         /\ {"message", "session_id", "mode", "prompt_style"} \subseteq DOMAIN b
         /\ DOMAIN b \subseteq
              {"message", "session_id", "mode", "prompt_style", "system_prompt"}
         /\ b.mode = CASE apiCall.responseMode = "standard" -> "no_rag"
                       [] apiCall.responseMode = "compare" -> "compare"
                       [] OTHER -> "rag"
         /\ b.message = apiCall.message
         /\ b.prompt_style = apiCall.promptStyle
         /\ ("system_prompt" \in DOMAIN b)
              <=> apiCall.systemPrompt \notin {NullArg, ""}
         /\ "system_prompt" \in DOMAIN b
              => b.system_prompt = apiCall.systemPrompt

\* sendMessage called in 'standard' mode with a system prompt.
C4_Witness ==
  /\ apiPhase = "pending"
  /\ apiCall.fn = "sendMessage"
  /\ apiCall.responseMode = "standard"
  /\ apiCall.systemPrompt = "Be brief"
  /\ httpLog[1].body.mode = "no_rag"
  /\ httpLog[1].body.system_prompt = "Be brief"

\* The test strings that contain ".csv".
CsvStrings == {Csv, <<"a">> \o Csv, Csv \o <<"x">>}

\* C5: runTests issues one post: an object with a non-empty prompt goes to
\* /test/single with prompt and expected_result (default ""); a string
\* without '.csv' goes to /test/single with test_file; a string with '.csv'
\* goes to /chat/batch-test with test_file and similarity_threshold 0.7;
\* anything else goes to /test/single with no body.
C5_RunTestsRouting ==
  apiCall.fn = "runTests" =>
    LET d == apiCall.testData
        req == httpLog[1]
    IN /\ Len(httpLog) = 1
       /\ req.method = "POST"
       /\ IF d.t = "object" /\ "prompt" \in DOMAIN d.o /\ d.o.prompt # ""
            THEN /\ req.url = <<"/test/single">>
                 /\ req.hasBody
                 /\ DOMAIN req.body = {"prompt", "expected_result"}
                 /\ req.body.prompt = d.o.prompt
                 /\ req.body.expected_result =
                      IF "expected_result" \in DOMAIN d.o
                        THEN d.o.expected_result ELSE ""
                 /\ req.params = NoFields
          ELSE IF d.t = "string" /\ d.s \notin CsvStrings
            THEN /\ req.url = <<"/test/single">>
                 /\ req.hasBody
                 /\ req.body = [test_file |-> d.s]
                 /\ req.params = NoFields
          ELSE IF d.t = "string"
            THEN /\ req.url = <<"/chat/batch-test">>
                 /\ req.hasBody
                 /\ req.body = [test_file |-> d.s]
                 /\ req.params = [similarity_threshold |-> "0.7"]
          ELSE /\ req.url = <<"/test/single">>
               /\ ~req.hasBody
               /\ req.params = NoFields

\* runTests called with a path that has '.csv' in its middle.
C5_Witness ==
  /\ apiPhase = "pending"
  /\ apiCall.fn = "runTests"
  /\ apiCall.testData.t = "string"
  /\ apiCall.testData.s = Csv \o <<"x">>
  /\ httpLog[1].url = <<"/chat/batch-test">>

\* C10: the session_id sendMessage returns is the one its request carried,
\* whatever session_id the response body has; it is the caller's sessionId
\* when that is non-empty; and a call that passes back the session_id the
\* previous call returned carries the session_id the previous request did.
C10_SessionContinuity ==
  apiCall.fn = "sendMessage" =>
    LET sent == httpLog[1].body.session_id IN
      /\ apiPhase = "resolved" => apiOutcome.value.session_id = sent
      /\ apiCall.sessionId \notin {NullArg, ""} => sent = apiCall.sessionId
      /\ chained => sent = prevSid

\* A call that passed back the returned session id resolved with a response
\* body carrying another session id.
C10_Witness ==
  /\ apiPhase = "resolved"
  /\ apiCall.fn = "sendMessage"
  /\ chained
  /\ "session_id" \in DOMAIN httpData
  /\ httpData.session_id # httpLog[1].body.session_id
  /\ apiOutcome.value.session_id = prevSid

====
